---- MODULE Spec2Model ----
(***************************************************************************)
(* Drift detector: the concurrent orchestrator (Service.Run) of            *)
(* internal/orchestrator, with the errgroup work group, the buffered       *)
(* result channel, the closer goroutine and the collecting loop.           *)
(*                                                                         *)
(* The repository holds two versions of Service.Run: the one of            *)
(* internal/orchestrator/orchestrator.go that folds the flags inside the   *)
(* collecting loop ("inline") and the refactored one (unnamed/part_001)    *)
(* that computes them with anyDriftDetected / anyErrorsOccurred            *)
(* ("helpers").  Both are modelled; Init chooses which one runs.           *)
(***************************************************************************)
EXTENDS Integers, Sequences, FiniteSets, TLC

\* ---------------------------------------------------------------- bounds
MaxInstances == 2
MaxLimit == 2
MaxFilter == 2
MaxGroups == 2
MaxBatchIDs == 25
MaxFormatLen == 4

\* ------------------------------------------------------------ input sets
AllIDs == <<"i-1", "i-2", "i-3", "i-4">>
InstanceIDSet == {AllIDs[k] : k \in 1..Len(AllIDs)}
ConfigPathSet == {"", "main.tf"}
VariantSet == {"inline", "helpers"}
DetectOutcomes == {"drift", "nodrift", "error"}

\* the requested lists: the first n identifiers, n = 0..MaxInstances
InstanceIDLists == {SubSeq(AllIDs, 1, n) : n \in 0..MaxInstances}

\* ------------------------------------------------------------------ state
VARIABLES
    variant,        \* which version of Run executes
    InstanceIDs,    \* Config.InstanceIDs
    ConfigPath,     \* Config.ConfigPath
    ConcurrencyLimit, \* Config.ConcurrencyLimit
    runPc,          \* position of Run
    tfConfig,       \* "nil" or "parsed": the shared declared snapshot
    next,           \* index of the next iteration of the scheduling loop
    wpc,            \* wpc[i]: position of the worker of iteration i
    wres,           \* wres[i]: the DriftDetectionResult worker i builds
    wsent,          \* wsent[i]: worker i took the send arm of its select
    gerr,           \* errgroup.Group.err
    ctxCancelled,   \* the caller's context is cancelled
    gctxDone,       \* the group context is done
    resultChan,     \* buffered content of resultChan
    chanClosed,     \* resultChan is closed
    closerPc,       \* position of the closer goroutine
    results,        \* the collected results
    anyDrift,       \* Run's local flag (inline version)
    anyError,       \* Run's local flag (inline version)
    ret,            \* what Run returned
    parseCalls,     \* number of ParseHCLConfig calls
    fetchCalls,     \* fetchCalls[id]: number of GetInstanceDetails(id) calls
    detectCalls,    \* detectCalls[id]: number of DetectDrift calls for id
    printCalls,     \* printCalls[id]: number of PrintReport(id) calls
    errorLogs,      \* instance IDs of the per-instance error lines logged
    summary,        \* the summary lines emitted
    doneAtCancel,   \* history: workers that had finished processInstance when
                    \* the caller's context was cancelled and are still at
                    \* their select
    exitCode,       \* the exit status of the CLI process, NotExited while it runs
    driftVariant,   \* which version of DetectDrift is called
    awsInstance,    \* the live snapshot handed to DetectDrift
    tfInstance,     \* the declared snapshot handed to DetectDrift
    attributesToCheck, \* the attribute filter handed to DetectDrift
    faulty,         \* the comparators that panic when called
    dcall,          \* the call of DetectDrift and where it stands
    instanceIDs,    \* the identifiers handed to GetInstancesDetails
    batchPc,        \* position of GetInstancesDetails
    batchStart,     \* the loop variable i of GetInstancesDetails
    allInstances,   \* the snapshots GetInstancesDetails has gathered
    describeCalls,  \* the DescribeInstances calls issued, in order
    batchRet,       \* what GetInstancesDetails returned
    OutputFormat,   \* Config.OutputFormat
    reportFormat,   \* the format handed to PrintReport
    reportErr,      \* what PrintReport returned, "none" before the call
    loopScope,      \* the scope the build gives the loop variable instanceID
    loopIDs,        \* the list the scheduling loop ranges over
    loopLimit,      \* the limit of the work group
    loopPc,         \* position of the scheduling loop
    loopIndex,      \* the iteration the scheduling loop is in
    instanceID,     \* the loop variable when the loop has one for all iterations
    goPc,           \* goPc[i]: position of the goroutine of iteration i
    readID          \* readID[i]: the identifier goroutine i handed to processInstance

cfgVars == <<variant, InstanceIDs, ConfigPath, ConcurrencyLimit>>
workerVars == <<wpc, wres, wsent>>
groupVars == <<gerr, gctxDone>>
chanVars == <<resultChan, chanClosed>>
collectVars == <<results, anyDrift, anyError>>
callVars == <<parseCalls, fetchCalls, detectCalls, printCalls>>
outVars == <<errorLogs, summary>>
runVars == <<cfgVars, runPc, tfConfig, next, workerVars, groupVars, ctxCancelled,
             chanVars, closerPc, collectVars, ret, callVars, outVars, doneAtCancel,
             exitCode>>
driftVars == <<driftVariant, awsInstance, tfInstance, attributesToCheck, faulty,
               dcall>>
batchVars == <<instanceIDs, batchPc, batchStart, allInstances, describeCalls, batchRet>>
formatVars == <<OutputFormat, reportFormat, reportErr>>
loopVars == <<loopScope, loopIDs, loopLimit, loopPc, loopIndex, instanceID, goPc, readID>>
sideVars == <<batchVars, formatVars, loopVars>>
vars == <<runVars, driftVars, sideVars>>

N == Len(InstanceIDs)
Workers == 1..N

NoRet == [returned |-> FALSE, anyDrift |-> FALSE, anyError |-> FALSE, err |-> "nil"]
Returned(d, e, err) == [returned |-> TRUE, anyDrift |-> d, anyError |-> e, err |-> err]

\* a nil *driftcheck.DriftResult
NilDriftResult == [IsNil |-> TRUE, HasDrift |-> FALSE, TfConfig |-> "nil"]

\* mutant: the drift result does not reference the declared snapshot
NewDriftResultNoBaseline(tf, hasDrift) ==
    [IsNil |-> FALSE, HasDrift |-> hasDrift, TfConfig |-> "nil"]

\* DetectDrift: result := &DriftResult{HasDrift: ..., TfConfig: tfInstance};
\* the result references the declared snapshot it was compared against
NewDriftResult(tf, hasDrift) ==
    [IsNil |-> FALSE, HasDrift |-> hasDrift, TfConfig |-> tf]

\* DriftDetectionResult{InstanceID: instanceID}
NewResult(id) ==
    [InstanceID |-> id, HasDrift |-> FALSE, Error |-> "nil", Result |-> NilDriftResult]

\* ------------------------------------------------------- pure functions
\* mutant: validation that forgets the config path
validateConfigIDsOnly(ids, path) ==
    IF Len(ids) = 0 THEN "no_instance_ids" ELSE "nil"

\* validateConfig
validateConfig(ids, path) ==
    IF Len(ids) = 0 THEN "no_instance_ids"
    ELSE IF path = "" THEN "no_config_path"
    ELSE "nil"

\* mutant: an unbuffered result channel
ChanCapUnbuffered(ids) == 0

\* mutant: the buffer is one slot short of the number of instances
ChanCapOneShort(ids) == Len(ids) - 1

\* make(chan DriftDetectionResult, len(s.config.InstanceIDs))
ChanCap(ids) == Len(ids)

\* mutant: the semaphore admits one worker too many
LimitAllowsOneMore(limit, active) == limit > 0 => active <= limit

\* errgroup: g.SetLimit is called only for a limit > 0; g.Go blocks while
\* the semaphore holds `limit` tokens
LimitAllows(limit, active) == limit > 0 => active < limit

\* mutant: the count leaves out the results that carry an error
countDriftsWithoutError(rs) ==
    Cardinality({k \in 1..Len(rs) : rs[k].HasDrift /\ rs[k].Error = "nil"})

RECURSIVE countDrifts(_)
countDrifts(rs) ==
    IF rs = <<>> THEN 0
    ELSE (IF Head(rs).HasDrift THEN 1 ELSE 0) + countDrifts(Tail(rs))

\* mutant: the count skips the first result
countErrorsSkipFirst(rs) ==
    Cardinality({k \in 2..Len(rs) : rs[k].Error # "nil"})

RECURSIVE countErrors(_)
countErrors(rs) ==
    IF rs = <<>> THEN 0
    ELSE (IF Head(rs).Error # "nil" THEN 1 ELSE 0) + countErrors(Tail(rs))

RECURSIVE anyDriftDetected(_)
anyDriftDetected(rs) ==
    IF rs = <<>> THEN FALSE
    ELSE IF Head(rs).HasDrift /\ Head(rs).Error = "nil" THEN TRUE
    ELSE anyDriftDetected(Tail(rs))

anyErrorsOccurred(rs) == countErrors(rs) > 0

\* the collecting loop of the inline Run: fold one received result
InlineDrift(flag, r) == IF r.HasDrift THEN TRUE ELSE flag
InlineError(flag, r) == IF r.Error # "nil" THEN TRUE ELSE flag

\* mutant: the worker swallows the cancellation
WorkerReturnNil(res, arm) == "nil"

\* mutant: the worker hands its per-instance error to the work group
WorkerReturnResultError(res, arm) ==
    IF arm # "send" THEN "canceled"
    ELSE IF res.Error # "nil" THEN "failed" ELSE "nil"

\* what the worker function returns from its select
WorkerReturn(res, arm) == IF arm = "send" THEN "nil" ELSE "canceled"

\* mutant: Wait returns without waiting for the goroutines
WaitReturnsAtOnce(active) == TRUE

\* g.Wait() returns once every goroutine started with g.Go has returned
WaitReturns(active) == active = {}

\* mutant: the channel is closed only when the work group succeeded
CloseOnlyOnSuccess(err) == err = "nil"

\* the closer goroutine ignores Wait's error: `_ = g.Wait(); close(resultChan)`
CloseAfterWait(err) == TRUE

\* mutant: the loop ends as soon as the buffer is empty
RangeEndsWhenEmpty(ch, closed) == ch = <<>>

\* `for result := range resultChan` ends on a closed, drained channel
RangeEnds(ch, closed) == ch = <<>> /\ closed

\* the CLI process has not exited
NotExited == -1

\* mutant: the error flag is looked at before the drift flag
ExitCodeErrorFirst(hasDrift, hasError, err) ==
    IF err # "nil" THEN 1
    ELSE IF hasError THEN 1
    ELSE IF hasDrift THEN 2
    ELSE 0

\* main: log.Fatalf (exit status 1) on a run-level error, os.Exit(2) on
\* drift, os.Exit(1) on per-instance errors, else the normal exit status 0
ExitCode(hasDrift, hasError, err) ==
    IF err # "nil" THEN 1
    ELSE IF hasDrift THEN 2
    ELSE IF hasError THEN 1
    ELSE 0

\* workers whose goroutine exists and has not run errgroup's done()
Active == {i \in Workers : wpc[i] \notin {"idle", "done"}}
\* workers inside processInstance
InProcess == {i \in Workers : wpc[i] = "run"}

\* ------------------------------------------------------- the drift engine
\* internal/driftcheck: DetectDrift and its comparators.  The repository
\* holds three versions of it: the one that reports an unsupported attribute
\* and wraps a comparator panic (unnamed/part_013, "checked"), the one with
\* the same helpers that ignores an unsupported attribute (unnamed/part_011,
\* "lenient") and the single-function one (unnamed/part_012, "monolithic").
\* Attribute names are sequences of characters, so that the normalisation of
\* a name is computed as the code computes it.
DriftVariantSet == {"checked", "lenient", "monolithic"}

UpperChars == <<"A", "B", "C", "D", "E", "F", "G", "H", "I", "J", "K", "L", "M", "N", "O", "P", "Q", "R", "S", "T", "U", "V", "W", "X", "Y", "Z">>
LowerChars == <<"a", "b", "c", "d", "e", "f", "g", "h", "i", "j", "k", "l", "m", "n", "o", "p", "q", "r", "s", "t", "u", "v", "w", "x", "y", "z">>

\* the canonical attribute names
AttrInstanceType == <<"i", "n", "s", "t", "a", "n", "c", "e", "_", "t", "y", "p", "e">>
AttrTags == <<"t", "a", "g", "s">>
AttrAMI == <<"a", "m", "i">>
AttrSecurityGroups == <<"s", "e", "c", "u", "r", "i", "t", "y", "_", "g", "r", "o", "u", "p", "s">>
AttrSubnetID == <<"s", "u", "b", "n", "e", "t", "_", "i", "d">>
AttrInstanceID == <<"i", "n", "s", "t", "a", "n", "c", "e", "_", "i", "d">>
AttrVpcID == <<"v", "p", "c", "_", "i", "d">>

\* the alias table of normalizeAttributeName
specialCases ==
    {<<<<"t", "y", "p", "e">>, AttrInstanceType>>,
     <<<<"i", "n", "s", "t", "a", "n", "c", "e", "t", "y", "p", "e">>, AttrInstanceType>>,
     <<<<"s", "g">>, AttrSecurityGroups>>,
     <<<<"s", "e", "c", "u", "r", "i", "t", "y", "g", "r", "o", "u", "p">>, AttrSecurityGroups>>,
     <<<<"s", "e", "c", "u", "r", "i", "t", "y", "_", "g", "r", "o", "u", "p">>, AttrSecurityGroups>>,
     <<<<"s", "e", "c", "u", "r", "i", "t", "y", "g", "r", "o", "u", "p", "s">>, AttrSecurityGroups>>,
     <<<<"s", "u", "b", "n", "e", "t">>, AttrSubnetID>>,
     <<<<"v", "p", "c">>, AttrVpcID>>,
     <<<<"i", "d">>, AttrInstanceID>>}

\* strings.ToLower, one character and a whole name
ToLowerChar(c) ==
    IF \E k \in 1..Len(UpperChars) : UpperChars[k] = c
    THEN LowerChars[CHOOSE k \in 1..Len(UpperChars) : UpperChars[k] = c]
    ELSE c
ToLower(s) == [k \in 1..Len(s) |-> ToLowerChar(s[k])]

\* strings.ReplaceAll for a one-character pattern
ReplaceAll(s, old, new) == [k \in 1..Len(s) |-> IF s[k] = old THEN new ELSE s[k]]

\* mutant: only the letter case is normalised
normalizeAttributeNameLowerOnly(attr) == ToLower(attr)

\* normalizeAttributeName
normalizeAttributeName(attr) ==
    LET normalized == ReplaceAll(ReplaceAll(ToLower(attr), "-", "_"), " ", "_")
    IN  IF \E p \in specialCases : p[1] = normalized
        THEN (CHOOSE p \in specialCases : p[1] = normalized)[2]
        ELSE normalized

\* the keys of getAttributeComparators()
ComparatorNames == {AttrInstanceType, AttrTags, AttrAMI, AttrSecurityGroups, AttrSubnetID}

\* mutant: the tags are skipped as well
getSkipAttributesAndTags == {AttrInstanceID, AttrTags}

\* getSkipAttributes()
getSkipAttributes == {AttrInstanceID}

\* the attribute names a caller passes in the filter
RawInstanceType == <<"I", "n", "s", "t", "a", "n", "c", "e", "-", "T", "y", "p", "e">>
RawSG == <<"s", "g">>
RawAMI == <<"A", "M", "I">>
RawSubnet == <<"S", "u", "b", "n", "e", "t", " ", "I", "D">>
RawVpc == <<"v", "p", "c">>
RawNames == {RawInstanceType, RawSG, RawAMI, RawSubnet, RawVpc}
Filters == UNION {[1..k -> RawNames] : k \in 0..MaxFilter}

\* []string and map[string]string values: a nil one differs from an empty one
NilList == [IsNil |-> TRUE, Items |-> <<>>]
List(items) == [IsNil |-> FALSE, Items |-> items]
NilTags == [IsNil |-> TRUE, Pairs |-> {}]
Tags(pairs) == [IsNil |-> FALSE, Pairs |-> pairs]

\* the security-group identifiers, in the order of Go's string comparison
GroupIDs == <<"sg-1", "sg-2">>
GroupIDSet == {GroupIDs[k] : k \in 1..Len(GroupIDs)}
GroupRank(id) == CHOOSE k \in 1..Len(GroupIDs) : GroupIDs[k] = id
GroupLists ==
    {NilList} \cup {List(items) : items \in UNION {[1..k -> GroupIDSet] : k \in 0..MaxGroups}}

\* a nil *models.InstanceDetails
NilInstance ==
    [IsNil |-> TRUE, InstanceID |-> "", InstanceType |-> "", AMI |-> "",
     SubnetID |-> "", Tags |-> NilTags, SecurityGroups |-> NilList]

\* what GetInstanceDetails builds: tags and security groups are nil when the
\* instance has none
LiveInstance(tags, groups) ==
    [IsNil |-> FALSE, InstanceID |-> "i-1", InstanceType |-> "t2.micro",
     AMI |-> "ami-1", SubnetID |-> "subnet-1", Tags |-> tags,
     SecurityGroups |-> groups]

\* a declared instance (ParseHCLConfig leaves InstanceID empty; a caller of
\* DetectDrift may set it)
DeclaredInstance(id, type, ami, subnet, tags, groups) ==
    [IsNil |-> FALSE, InstanceID |-> id, InstanceType |-> type, AMI |-> ami,
     SubnetID |-> subnet, Tags |-> tags, SecurityGroups |-> groups]

TagsWeb == Tags({<<"Name", "web">>})

\* inputs of the engine: every attribute can be equal or different, and
\* either snapshot can be nil
EngineLive ==
    {LiveInstance(tags, List(<<"sg-1", "sg-2">>)) : tags \in {NilTags, TagsWeb}}
EngineDeclared ==
    {DeclaredInstance(id, type, ami, subnet, tags, groups) :
        id \in {"", "i-2"}, type \in {"t2.micro", "t2.small"},
        ami \in {"ami-1", "ami-2"}, subnet \in {"subnet-1", ""},
        tags \in {Tags({}), TagsWeb},
        groups \in {List(<<"sg-1", "sg-2">>), List(<<"sg-2", "sg-1">>), List(<<"sg-1">>)}}

EnginePairs ==
    (EngineLive \X EngineDeclared)
        \cup ({NilInstance} \X EngineLive) \cup (EngineLive \X {NilInstance})

\* inputs of the security-group comparison: snapshots equal in everything
\* but their security-group lists
GroupLive == {LiveInstance(TagsWeb, groups) : groups \in GroupLists}
GroupDeclared ==
    {DeclaredInstance("", "t2.micro", "ami-1", "subnet-1", TagsWeb, groups) :
        groups \in GroupLists}

\* the comparators that fault (panic) when they are called
FaultSets == {{}, {AttrAMI}}

\* sort.Strings: insertion of one string into a sorted list, and the sort
RECURSIVE InsertSorted(_, _)
InsertSorted(x, sorted) ==
    IF sorted = <<>> THEN <<x>>
    ELSE IF GroupRank(x) <= GroupRank(Head(sorted)) THEN <<x>> \o sorted
    ELSE <<Head(sorted)>> \o InsertSorted(x, Tail(sorted))

RECURSIVE SortStrings(_)
SortStrings(items) ==
    IF items = <<>> THEN <<>>
    ELSE InsertSorted(Head(items), SortStrings(Tail(items)))

\* mutant: the caller's slice is sorted in place
sortedInPlace(original) ==
    IF original.IsNil
    THEN [copy |-> NilList, original |-> original]
    ELSE [copy |-> List(SortStrings(original.Items)),
          original |-> List(SortStrings(original.Items))]

\* mutant: the copy is not sorted
sortedCopyUnsorted(original) == [copy |-> original, original |-> original]

\* sortedCopy: nil for nil, else a sorted copy; `original` is the caller's
\* slice after the call, which the copy leaves as it was
sortedCopy(original) ==
    IF original.IsNil
    THEN [copy |-> NilList, original |-> original]
    ELSE [copy |-> List(SortStrings(original.Items)), original |-> original]

\* the untyped nil the security_groups comparator returns as a value
NilValue == "nil"

\* mutant: every comparator compares the instance identifiers
CompareInstanceID(attr, aws, tf) ==
    [hasDrift |-> aws.InstanceID # tf.InstanceID,
     awsValue |-> aws.InstanceID, tfValue |-> tf.InstanceID,
     aws |-> aws, tf |-> tf]

\* the comparators of getAttributeComparators(): whether the attribute
\* differs, the two values, and the two snapshots after the call;
\* reflect.DeepEqual distinguishes a nil from an empty slice or map
Compare(attr, aws, tf) ==
    CASE attr = AttrInstanceType ->
            [hasDrift |-> aws.InstanceType # tf.InstanceType,
             awsValue |-> aws.InstanceType, tfValue |-> tf.InstanceType,
             aws |-> aws, tf |-> tf]
      [] attr = AttrTags ->
            [hasDrift |-> aws.Tags # tf.Tags,
             awsValue |-> aws.Tags, tfValue |-> tf.Tags,
             aws |-> aws, tf |-> tf]
      [] attr = AttrAMI ->
            [hasDrift |-> aws.AMI # tf.AMI,
             awsValue |-> aws.AMI, tfValue |-> tf.AMI,
             aws |-> aws, tf |-> tf]
      [] attr = AttrSubnetID ->
            [hasDrift |-> aws.SubnetID # tf.SubnetID,
             awsValue |-> aws.SubnetID, tfValue |-> tf.SubnetID,
             aws |-> aws, tf |-> tf]
      [] attr = AttrSecurityGroups ->
            IF aws.SecurityGroups.IsNil /\ tf.SecurityGroups.IsNil
            THEN [hasDrift |-> FALSE, awsValue |-> NilValue, tfValue |-> NilValue,
                  aws |-> aws, tf |-> tf]
            ELSE LET awsSGs == sortedCopy(aws.SecurityGroups)
                     tfSGs == sortedCopy(tf.SecurityGroups)
                     awsAfter == [aws EXCEPT !.SecurityGroups = awsSGs.original]
                     tfAfter == [tf EXCEPT !.SecurityGroups = tfSGs.original]
                 IN  [hasDrift |-> awsSGs.copy # tfSGs.copy,
                      awsValue |-> awsAfter.SecurityGroups,
                      tfValue |-> tfAfter.SecurityGroups,
                      aws |-> awsAfter, tf |-> tfAfter]

\* errors.go: the categories and a *DriftError; NoError is a nil error
ErrInvalidInput == "invalid_input"
ErrComparisonFailed == "comparison_failed"
ErrResourceMissing == "resource_missing"
NoError == [Category |-> "nil", Attribute |-> <<>>]
NewDriftError(category, attribute) == [Category |-> category, Attribute |-> attribute]
\* the fmt.Errorf error of the versions without DriftError
PlainError == [Category |-> "plain", Attribute |-> <<>>]
\* a panic value that is no *DriftError
RuntimePanic == [Category |-> "runtime_panic", Attribute |-> <<>>]

\* a nil *DriftResult and the one DetectDrift starts from
NilResult == [IsNil |-> TRUE, HasDrift |-> FALSE, Drifts |-> <<>>]
EmptyResult == [IsNil |-> FALSE, HasDrift |-> FALSE, Drifts |-> <<>>]
DriftDetail(attr, awsValue, tfValue) ==
    [Attribute |-> attr, AWSValue |-> awsValue, TerraformValue |-> tfValue]

\* the state a call works on, and how a function of the engine ends: it
\* returns nil ("ok"), returns an error ("error") or panics ("panic")
Ended(kind, result, err, aws, tf) ==
    [kind |-> kind, result |-> result, err |-> err, aws |-> aws, tf |-> tf]

\* a comparator panicked inside checkAttributeAndUpdateResult: the deferred
\* function of part_013 recovers and panics again with a comparison_failed
\* DriftError; the other versions have no recover
Recovered(ver, attrName) ==
    IF ver = "checked"
    THEN [kind |-> "panic", err |-> NewDriftError(ErrComparisonFailed, attrName)]
    ELSE [kind |-> "panic", err |-> RuntimePanic]

\* checkAttributeAndUpdateResult (inlined in the monolithic version)
checkAttributeAndUpdateResult(ver, result, attrName, aws, tf, faults) ==
    IF ver = "checked" /\ attrName = <<>>
    THEN Ended("error", result, NewDriftError(ErrInvalidInput, <<>>), aws, tf)
    ELSE IF attrName \in faults
    THEN LET r == Recovered(ver, attrName)
         IN  Ended(r.kind, result, r.err, aws, tf)
    ELSE LET c == Compare(attrName, aws, tf)
         IN  IF c.hasDrift
             THEN Ended("ok",
                        [result EXCEPT
                            !.HasDrift = TRUE,
                            !.Drifts = (attrName :> DriftDetail(attrName, c.awsValue, c.tfValue)) @@ @],
                        NoError, c.aws, c.tf)
             ELSE Ended("ok", result, NoError, c.aws, c.tf)

\* only part_013 returns an error for a name without comparator
UnsupportedIsError(ver) == ver = "checked"

\* checkSpecificAttributes: the requested names, in the order of the filter
RECURSIVE checkSpecificAttributes(_, _, _, _, _, _)
checkSpecificAttributes(ver, result, aws, tf, attrs, faults) ==
    IF attrs = <<>> THEN Ended("ok", result, NoError, aws, tf)
    ELSE LET attr == Head(attrs)
             normalizedAttr == normalizeAttributeName(attr)
         IN  IF normalizedAttr \in ComparatorNames
             THEN LET e == checkAttributeAndUpdateResult(ver, result, normalizedAttr,
                                                         aws, tf, faults)
                  IN  IF e.kind = "ok"
                      THEN checkSpecificAttributes(ver, e.result, e.aws, e.tf,
                                                   Tail(attrs), faults)
                      ELSE e
             ELSE IF UnsupportedIsError(ver)
             THEN Ended("error", result, NewDriftError(ErrResourceMissing, attr), aws, tf)
             ELSE checkSpecificAttributes(ver, result, aws, tf, Tail(attrs), faults)

\* checkAllAttributes skips the names of getSkipAttributes(), the
\* single-function version skips "instance_id", part_011 skips nothing
SkipsAttribute(ver, attr) == ver # "lenient" /\ attr \in getSkipAttributes

\* the call of DetectDrift: kind is "idle" (no call is followed), "ready"
\* (about to be called), "ranging" (inside the loop over the comparator
\* map, todo being the keys not visited yet), "returned" or "panicked"
Call(kind, result, err, todo) ==
    [kind |-> kind, result |-> result, err |-> err, todo |-> todo]
NoCall == Call("idle", NilResult, NoError, {})

\* the error DetectDrift returns for a nil snapshot
NilInputError(ver) ==
    IF ver = "checked" THEN NewDriftError(ErrInvalidInput, <<>>) ELSE PlainError

\* how DetectDrift ends when the function it called ended with e
EndCall(e) ==
    IF e.kind = "panic"
    THEN Call("panicked", NilResult, e.err, {})
    ELSE Call("returned", e.result, e.err, {})

\* ------------------------------------------------ the batched live fetch
\* the most identifiers one DescribeInstances call is given
maxIDsPerRequest == 10

\* the requested lists: n distinct identifiers, the k-th written k
BatchIDLists == {[k \in 1..n |-> k] : n \in 0..MaxBatchIDs}

\* end := i + maxIDsPerRequest, cut to len(instanceIDs)
BatchEnd(start, n) ==
    IF start + maxIDsPerRequest > n THEN n ELSE start + maxIDsPerRequest

\* batch := instanceIDs[i:end]
Batch(ids, start) == SubSeq(ids, start + 1, BatchEnd(start, Len(ids)))

\* the errors of GetInstancesDetails, and what it returns; IsNil says the
\* returned slice is nil
ErrBatchInvalidInput == "InvalidInput"
ErrBatchAWS == "aws"
NoBatchRet == [returned |-> FALSE, IsNil |-> TRUE, instances |-> <<>>, err |-> "nil"]
BatchReturn(instances, err) ==
    [returned |-> TRUE, IsNil |-> err # "nil", instances |-> instances, err |-> err]

\* no call of GetInstancesDetails is followed
BatchAtRest ==
    /\ instanceIDs = <<>>
    /\ batchPc = "none"
    /\ batchStart = 0
    /\ allInstances = <<>>
    /\ describeCalls = <<>>
    /\ batchRet = NoBatchRet

\* ------------------------------------------------------ the report format
OutputFormatTypeJSON == <<"J", "S", "O", "N">>
OutputFormatTypeTABLE == <<"T", "A", "B", "L", "E">>

\* strings.ToUpper, one character and a whole string
ToUpperChar(c) ==
    IF \E k \in 1..Len(LowerChars) : LowerChars[k] = c
    THEN UpperChars[CHOOSE k \in 1..Len(LowerChars) : LowerChars[k] = c]
    ELSE c
ToUpper(s) == [k \in 1..Len(s) |-> ToUpperChar(s[k])]

\* mutant: the configured string is handed on in upper case
getOutputFormatUpper(outputFormat) == ToUpper(outputFormat)

\* getOutputFormat
getOutputFormat(outputFormat) ==
    IF ToUpper(outputFormat) = OutputFormatTypeJSON
    THEN OutputFormatTypeJSON
    ELSE OutputFormatTypeTABLE

\* PrintReport: the error it returns; written says whether marshalling and
\* writing the report succeeded
PrintReport(outputFormat, written) ==
    IF outputFormat \in {OutputFormatTypeJSON, OutputFormatTypeTABLE}
    THEN IF written THEN "nil" ELSE "write"
    ELSE "unsupported"

\* the configured strings: short strings over a few letters, and the names
\* a user would write
FormatChars == {"j", "J", "s", "S", "o", "O", "n", "N", "x"}
FormatStrings ==
    UNION {[1..k -> FormatChars] : k \in 0..MaxFormatLen}
        \cup {<<"t", "a", "b", "l", "e">>, <<"T", "A", "B", "L", "E">>,
              <<"y", "a", "m", "l">>, <<"j", "s", "o", "n", " ">>}

\* no report is followed
FormatAtRest ==
    /\ OutputFormat = <<>>
    /\ reportFormat = <<>>
    /\ reportErr = "none"

\* ------------------------------------------- the scheduling loop of Run
\* the scope of `instanceID` in `for _, instanceID := range ...`: one
\* variable for each iteration (language version 1.22 and later) or one
\* variable for the whole loop (before 1.22)
LoopScopes == {"iteration", "loop"}

\* what the closure of iteration i reads when it evaluates instanceID: its
\* own variable, or the variable all closures share
ClosureReads(scope, ids, i, shared) ==
    IF scope = "iteration" THEN ids[i] ELSE shared

\* goroutines that hold a token of the work group's semaphore
LoopActive(pcs) == {i \in DOMAIN pcs : pcs[i] \in {"start", "process"}}

\* no scheduling loop is followed
LoopAtRest ==
    /\ loopScope = "iteration"
    /\ loopIDs = <<>>
    /\ loopLimit = 0
    /\ loopPc = "none"
    /\ loopIndex = 1
    /\ instanceID = ""
    /\ goPc = <<>>
    /\ readID = <<>>

SideAtRest == BatchAtRest /\ FormatAtRest /\ LoopAtRest

\* no call of DetectDrift is followed while the orchestrator is followed
DriftAtRest ==
    /\ driftVariant = "checked"
    /\ awsInstance = NilInstance
    /\ tfInstance = NilInstance
    /\ attributesToCheck = <<>>
    /\ faulty = {}
    /\ dcall = NoCall

\* ------------------------------------------------------------------ Init
Init ==
    /\ variant \in VariantSet
    /\ InstanceIDs \in InstanceIDLists
    /\ ConfigPath \in ConfigPathSet
    /\ ConcurrencyLimit \in 0..MaxLimit
    /\ runPc = "validate"
    /\ tfConfig = "nil"
    /\ next = 1
    /\ wpc = [i \in Workers |-> "idle"]
    /\ wres = [i \in Workers |-> NewResult(InstanceIDs[i])]
    /\ wsent = [i \in Workers |-> FALSE]
    /\ gerr = "nil"
    /\ ctxCancelled = FALSE
    /\ gctxDone = FALSE
    /\ resultChan = <<>>
    /\ chanClosed = FALSE
    /\ closerPc = "none"
    /\ results = <<>>
    /\ anyDrift = FALSE
    /\ anyError = FALSE
    /\ ret = NoRet
    /\ parseCalls = 0
    /\ fetchCalls = [id \in InstanceIDSet |-> 0]
    /\ detectCalls = [id \in InstanceIDSet |-> 0]
    /\ printCalls = [id \in InstanceIDSet |-> 0]
    /\ errorLogs = <<>>
    /\ summary = <<>>
    /\ doneAtCancel = {}
    /\ exitCode = NotExited
    /\ DriftAtRest
    /\ SideAtRest

\* --------------------------------------------------------------- actions
\* Run: s.validateConfig()
Validate ==
    /\ runPc = "validate"
    /\ IF validateConfig(InstanceIDs, ConfigPath) # "nil"
       THEN /\ ret' = Returned(FALSE, TRUE, "validation")
            /\ runPc' = "done"
       ELSE /\ runPc' = "parse"
            /\ UNCHANGED ret
    /\ UNCHANGED <<sideVars, cfgVars, exitCode, driftVars, tfConfig, next, workerVars, groupVars, ctxCancelled,
                   chanVars, closerPc, collectVars, callVars, outVars, doneAtCancel>>

\* Run: ParseHCLConfig, then errgroup.WithContext, SetLimit, make(chan)
ParseConfig ==
    /\ runPc = "parse"
    /\ parseCalls' = parseCalls + 1
    /\ \E ok \in BOOLEAN :
         IF ok
         THEN /\ tfConfig' = "parsed"
              /\ runPc' = "schedule"
              /\ gctxDone' = ctxCancelled
              /\ UNCHANGED ret
         ELSE /\ ret' = Returned(FALSE, TRUE, "parse")
              /\ runPc' = "done"
              /\ UNCHANGED <<tfConfig, gctxDone>>
    /\ UNCHANGED <<sideVars, cfgVars, exitCode, driftVars, next, workerVars, gerr, ctxCancelled, chanVars,
                   closerPc, collectVars, fetchCalls, detectCalls, printCalls,
                   outVars, doneAtCancel>>

\* one iteration of the scheduling loop: g.Go(func() error {...})
Schedule ==
    /\ runPc = "schedule"
    /\ next <= N
    /\ LimitAllows(ConcurrencyLimit, Cardinality(Active))
    /\ wpc' = [wpc EXCEPT ![next] = "run"]
    /\ next' = next + 1
    /\ UNCHANGED <<sideVars, cfgVars, exitCode, driftVars, runPc, tfConfig, wres, wsent, groupVars,
                   ctxCancelled, chanVars, closerPc, collectVars, ret, callVars,
                   outVars, doneAtCancel>>

\* the loop is over: go func() { _ = g.Wait(); close(resultChan) }()
StartCloser ==
    /\ runPc = "schedule"
    /\ next > N
    /\ closerPc' = "wait"
    /\ runPc' = "collect"
    /\ UNCHANGED <<sideVars, cfgVars, exitCode, driftVars, tfConfig, next, workerVars, groupVars, ctxCancelled,
                   chanVars, collectVars, ret, callVars, outVars, doneAtCancel>>

\* processInstance: the result built from what the three collaborators
\* answer (GetInstanceDetails, DetectDrift, PrintReport)
processInstance(id, tf, fetchOk, detectOut, printOk) ==
    IF ~fetchOk
    THEN [NewResult(id) EXCEPT !.Error = "fetch"]
    ELSE IF detectOut = "error"
    THEN [NewResult(id) EXCEPT !.Error = "detect"]
    ELSE LET driftResult == NewDriftResult(tf, detectOut = "drift")
             r == [NewResult(id) EXCEPT !.HasDrift = driftResult.HasDrift,
                                        !.Result = driftResult]
         IN  IF printOk THEN r ELSE [r EXCEPT !.Error = "report"]

\* mutant: the comparison runs whatever the fetch returned
ComparesInstanceAlways(fetchOk) == TRUE

\* processInstance reaches DetectDrift only when the fetch succeeded
ComparesInstance(fetchOk) == fetchOk

\* mutant: the report is printed also when the comparison failed
ReportsInstanceAfterFetch(fetchOk, detectOut) == fetchOk

\* processInstance reaches generateInstanceReport (PrintReport) only when
\* the fetch and the comparison succeeded
ReportsInstance(fetchOk, detectOut) == fetchOk /\ detectOut # "error"

\* the worker runs s.processInstance(gctx, instanceID, tfConfig): it fetches
\* the live instance, compares it if the fetch succeeded and prints the
\* report if the comparison succeeded
ProcessInstance(i) ==
    /\ wpc[i] = "run"
    /\ \E fetchOk \in BOOLEAN, detectOut \in DetectOutcomes, printOk \in BOOLEAN :
         LET id == InstanceIDs[i]
             detected == ComparesInstance(fetchOk)
             printed == ReportsInstance(fetchOk, detectOut)
         IN  /\ wres' = [wres EXCEPT ![i] =
                            processInstance(id, tfConfig, fetchOk, detectOut, printOk)]
             /\ fetchCalls' = [fetchCalls EXCEPT ![id] = @ + 1]
             /\ detectCalls' = [detectCalls EXCEPT ![id] = IF detected THEN @ + 1 ELSE @]
             /\ printCalls' = [printCalls EXCEPT ![id] = IF printed THEN @ + 1 ELSE @]
    /\ wpc' = [wpc EXCEPT ![i] = "select"]
    /\ UNCHANGED <<sideVars, cfgVars, exitCode, driftVars, runPc, tfConfig, next, wsent, groupVars,
                   ctxCancelled, chanVars, closerPc, collectVars, ret, parseCalls,
                   outVars, doneAtCancel>>

\* a send is ready while the buffer has room, or when the collecting loop is
\* parked on an empty channel (the value is then handed over directly)
SendReady ==
    \/ Len(resultChan) < ChanCap(InstanceIDs)
    \/ (runPc = "collect" /\ resultChan = <<>> /\ ~chanClosed)

\* the rest of the worker's goroutine.  The function ends with
\*   select { case resultChan <- result: return nil
\*            case <-gctx.Done():        return gctx.Err() }
\* where, both arms being ready, either may be taken; errgroup then records
\* the first non-nil error under errOnce and cancels the group context, and
\* its deferred done() frees the semaphore token and the wait group.  The
\* closure's local `result` is dead once the function has returned.
WorkerFinish(i) ==
    /\ wpc[i] = "select"
    /\ \E arm \in {"send", "ctxdone"} :
         /\ arm = "send" => SendReady
         /\ arm = "ctxdone" => gctxDone
         /\ resultChan' = IF arm = "send" THEN Append(resultChan, wres[i])
                          ELSE resultChan
         /\ wsent' = [wsent EXCEPT ![i] = (arm = "send")]
         /\ LET err == WorkerReturn(wres[i], arm) IN
              IF err # "nil" /\ gerr = "nil"
              THEN /\ gerr' = err
                   /\ gctxDone' = TRUE
              ELSE UNCHANGED <<gerr, gctxDone>>
    /\ wres' = [wres EXCEPT ![i] = NewResult(InstanceIDs[i])]
    /\ wpc' = [wpc EXCEPT ![i] = "done"]
    /\ doneAtCancel' = doneAtCancel \ {i}
    /\ UNCHANGED <<sideVars, cfgVars, exitCode, driftVars, runPc, tfConfig, next, ctxCancelled, chanClosed,
                   closerPc, collectVars, ret, callVars, outVars>>

\* the closer goroutine: g.Wait() returns once every worker ran done(); Wait
\* cancels the group context; then close(resultChan)
Closer ==
    /\ closerPc = "wait"
    /\ WaitReturns(Active)
    /\ gctxDone' = TRUE
    /\ chanClosed' = CloseAfterWait(gerr)
    /\ closerPc' = "done"
    /\ UNCHANGED <<sideVars, cfgVars, exitCode, driftVars, runPc, tfConfig, next, workerVars, gerr, ctxCancelled,
                   resultChan, collectVars, ret, callVars, outVars, doneAtCancel>>

\* for result := range resultChan: one received result
Collect ==
    /\ runPc = "collect"
    /\ resultChan # <<>>
    /\ LET r == Head(resultChan) IN
         /\ results' = Append(results, r)
         /\ IF variant = "inline"
            THEN /\ anyDrift' = InlineDrift(anyDrift, r)
                 /\ anyError' = InlineError(anyError, r)
            ELSE UNCHANGED <<anyDrift, anyError>>
    /\ resultChan' = Tail(resultChan)
    /\ UNCHANGED <<sideVars, cfgVars, exitCode, driftVars, runPc, tfConfig, next, workerVars, groupVars,
                   ctxCancelled, chanClosed, closerPc, ret, callVars, outVars,
                   doneAtCancel>>

\* the range loop ends when the channel is closed and drained
CollectEnd ==
    /\ runPc = "collect"
    /\ RangeEnds(resultChan, chanClosed)
    /\ runPc' = "wait"
    /\ UNCHANGED <<sideVars, cfgVars, exitCode, driftVars, tfConfig, next, workerVars, groupVars, ctxCancelled,
                   chanVars, closerPc, collectVars, ret, callVars, outVars,
                   doneAtCancel>>

\* generateSummaryReport: the error lines, then the summary line
ErrorLines(rs) == SelectSeq(rs, LAMBDA r : r.Error # "nil")
ErrorLogIDs(rs) == [k \in 1..Len(ErrorLines(rs)) |-> ErrorLines(rs)[k].InstanceID]
SummaryLines(rs) ==
    IF Len(rs) > 1
    THEN <<[checked |-> Len(rs), drift |-> countDrifts(rs), errors |-> countErrors(rs)]>>
    ELSE <<>>

\* the flags Run returns, by version
FinalDrift == IF variant = "inline" THEN anyDrift ELSE anyDriftDetected(results)
FinalError == IF variant = "inline" THEN anyError ELSE anyErrorsOccurred(results)
\* mutant: the flag is taken from the results alone
GroupErrorFlagFromResults == FinalError

\* the anyError flag returned next to a work-group error
GroupErrorFlag == TRUE

\* Run after the collecting loop: g.Wait(), the summary, the return
Finish ==
    /\ runPc = "wait"
    /\ WaitReturns(Active)
    /\ IF gerr # "nil"
       THEN /\ ret' = Returned(FinalDrift, GroupErrorFlag, "group")
            /\ UNCHANGED outVars
       ELSE /\ errorLogs' = ErrorLogIDs(results)
            /\ summary' = SummaryLines(results)
            /\ ret' = Returned(FinalDrift, FinalError, "nil")
    /\ runPc' = "done"
    /\ gctxDone' = TRUE
    /\ UNCHANGED <<sideVars, cfgVars, exitCode, driftVars, tfConfig, next, workerVars, gerr, ctxCancelled,
                   chanVars, closerPc, collectVars, callVars, doneAtCancel>>

\* the caller cancels the context handed to Run (timeout, signal)
Cancel ==
    /\ ~ctxCancelled
    /\ runPc # "done"
    /\ ctxCancelled' = TRUE
    /\ gctxDone' = IF runPc \in {"validate", "parse"} THEN gctxDone ELSE TRUE
    /\ doneAtCancel' = {i \in Workers : wpc[i] = "select"}
    /\ UNCHANGED <<sideVars, cfgVars, exitCode, driftVars, runPc, tfConfig, next, workerVars, gerr, chanVars,
                   closerPc, collectVars, ret, callVars, outVars>>

\* main after service.Run returned: the process exits
Exit ==
    /\ runPc = "done"
    /\ exitCode = NotExited
    /\ exitCode' = ExitCode(ret.anyDrift, ret.anyError, ret.err)
    /\ UNCHANGED <<sideVars, cfgVars, driftVars, runPc, tfConfig, next, workerVars,
                   groupVars, ctxCancelled, chanVars, closerPc, collectVars, ret,
                   callVars, outVars, doneAtCancel>>

WorkerSteps(i) ==
    i \in Workers /\ (ProcessInstance(i) \/ WorkerFinish(i))

WorkerStep == \E i \in Workers : WorkerSteps(i)

RunStep ==
    Validate \/ ParseConfig \/ Schedule \/ StartCloser \/ Collect \/ CollectEnd \/ Finish

Next == RunStep \/ WorkerStep \/ Closer \/ Cancel \/ Exit

Spec == Init /\ [][Next]_vars

\* the Go scheduler runs every goroutine that is ready: a step of Run, of a
\* worker or of the closer that stays possible is eventually taken; the
\* caller is free never to cancel
Progress == RunStep \/ WorkerStep \/ Closer \/ Exit

FairSpec == Spec /\ WF_vars(Progress)

\* ------------------------------------------- DetectDrift as a state machine
\* no run of the orchestrator is followed while a call of DetectDrift is
RunAtRest ==
    /\ variant = "helpers"
    /\ InstanceIDs = <<>>
    /\ ConfigPath = ""
    /\ ConcurrencyLimit = 0
    /\ runPc = "none"
    /\ tfConfig = "nil"
    /\ next = 1
    /\ wpc = <<>>
    /\ wres = <<>>
    /\ wsent = <<>>
    /\ gerr = "nil"
    /\ ctxCancelled = FALSE
    /\ gctxDone = FALSE
    /\ resultChan = <<>>
    /\ chanClosed = FALSE
    /\ closerPc = "none"
    /\ results = <<>>
    /\ anyDrift = FALSE
    /\ anyError = FALSE
    /\ ret = NoRet
    /\ parseCalls = 0
    /\ fetchCalls = [id \in InstanceIDSet |-> 0]
    /\ detectCalls = [id \in InstanceIDSet |-> 0]
    /\ printCalls = [id \in InstanceIDSet |-> 0]
    /\ errorLogs = <<>>
    /\ summary = <<>>
    /\ doneAtCancel = {}
    /\ exitCode = NotExited

\* a caller is about to call DetectDrift(awsInstance, tfInstance,
\* attributesToCheck)
DriftInit ==
    /\ RunAtRest
    /\ SideAtRest
    /\ driftVariant \in DriftVariantSet
    /\ \E p \in EnginePairs : awsInstance = p[1] /\ tfInstance = p[2]
    /\ attributesToCheck \in Filters
    /\ faulty \in FaultSets
    /\ dcall = Call("ready", NilResult, NoError, {})

\* a caller is about to compare two snapshots that differ at most in their
\* security-group lists
GroupInit ==
    /\ RunAtRest
    /\ SideAtRest
    /\ driftVariant \in DriftVariantSet
    /\ awsInstance \in GroupLive
    /\ tfInstance \in GroupDeclared
    /\ attributesToCheck \in {<<>>, <<RawSG>>}
    /\ faulty = {}
    /\ dcall = Call("ready", NilResult, NoError, {})

\* DetectDrift from its entry: the nil checks, then either the whole of
\* checkSpecificAttributes (a non-empty filter) or the start of the loop
\* over the comparator map (an empty filter); the snapshots are what the
\* call leaves behind the two pointers
DetectDriftCall ==
    /\ dcall.kind = "ready"
    /\ IF awsInstance.IsNil \/ tfInstance.IsNil
       THEN /\ dcall' = Call("returned", NilResult, NilInputError(driftVariant), {})
            /\ UNCHANGED <<awsInstance, tfInstance>>
       ELSE IF Len(attributesToCheck) > 0
       THEN LET e == checkSpecificAttributes(driftVariant, EmptyResult, awsInstance,
                                             tfInstance, attributesToCheck, faulty)
            IN  /\ dcall' = EndCall(e)
                /\ awsInstance' = e.aws
                /\ tfInstance' = e.tf
       ELSE /\ dcall' = Call("ranging", EmptyResult, NoError, ComparatorNames)
            /\ UNCHANGED <<awsInstance, tfInstance>>
    /\ UNCHANGED <<sideVars, runVars, driftVariant, attributesToCheck, faulty>>

\* checkAllAttributes: one iteration of `for attr, checkFn := range
\* allAttributes`, which visits the keys in an unspecified order; after the
\* last key, or on an error, DetectDrift returns
RangeStep ==
    /\ dcall.kind = "ranging"
    /\ \E attr \in dcall.todo :
         LET rest == dcall.todo \ {attr}
             e == IF SkipsAttribute(driftVariant, attr)
                  THEN Ended("ok", dcall.result, NoError, awsInstance, tfInstance)
                  ELSE checkAttributeAndUpdateResult(driftVariant, dcall.result, attr,
                                                     awsInstance, tfInstance, faulty)
         IN  /\ dcall' = IF e.kind = "ok" /\ rest # {}
                         THEN Call("ranging", e.result, NoError, rest)
                         ELSE EndCall(e)
             /\ awsInstance' = e.aws
             /\ tfInstance' = e.tf
    /\ UNCHANGED <<sideVars, runVars, driftVariant, attributesToCheck, faulty>>

DriftNext == DetectDriftCall \/ RangeStep

DriftSpec == DriftInit /\ [][DriftNext]_vars

GroupSpec == GroupInit /\ [][DriftNext]_vars

\* ------------------------------- GetInstancesDetails as a state machine
\* a caller is about to call GetInstancesDetails(ctx, instanceIDs)
BatchInit ==
    /\ RunAtRest
    /\ DriftAtRest
    /\ FormatAtRest
    /\ LoopAtRest
    /\ instanceIDs \in BatchIDLists
    /\ batchPc = "ready"
    /\ batchStart = 0
    /\ allInstances = <<>>
    /\ describeCalls = <<>>
    /\ batchRet = NoBatchRet

\* GetInstancesDetails up to its loop: an empty list is rejected
GetInstancesDetailsCall ==
    /\ batchPc = "ready"
    /\ IF Len(instanceIDs) = 0
       THEN /\ batchRet' = BatchReturn(<<>>, ErrBatchInvalidInput)
            /\ batchPc' = "returned"
       ELSE /\ batchPc' = "loop"
            /\ UNCHANGED batchRet
    /\ UNCHANGED <<runVars, driftVars, formatVars, loopVars, instanceIDs, batchStart,
                   allInstances, describeCalls>>

\* one iteration of `for i := 0; i < len(instanceIDs); i += maxIDsPerRequest`:
\* getInstancesBatch issues DescribeInstances for the batch, which fails or
\* answers with the snapshots of the batch; after the loop allInstances is
\* returned, on a failure nil and the error
BatchStep ==
    /\ batchPc = "loop"
    /\ IF batchStart < Len(instanceIDs)
       THEN \E ok \in BOOLEAN :
              LET batch == Batch(instanceIDs, batchStart)
              IN  /\ describeCalls' = Append(describeCalls, [ids |-> batch, ok |-> ok])
                  /\ IF ok
                     THEN /\ allInstances' = allInstances \o batch
                          /\ batchStart' = batchStart + maxIDsPerRequest
                          /\ UNCHANGED <<batchPc, batchRet>>
                     ELSE /\ batchRet' = BatchReturn(<<>>, ErrBatchAWS)
                          /\ batchPc' = "returned"
                          /\ UNCHANGED <<allInstances, batchStart>>
       ELSE /\ batchRet' = BatchReturn(allInstances, "nil")
            /\ batchPc' = "returned"
            /\ UNCHANGED <<allInstances, batchStart, describeCalls>>
    /\ UNCHANGED <<runVars, driftVars, formatVars, loopVars, instanceIDs>>

BatchNext == GetInstancesDetailsCall \/ BatchStep

BatchSpec == BatchInit /\ [][BatchNext]_vars

\* -------------------------------------- generateInstanceReport, the format
\* the service is configured with any string as its output format
FormatInit ==
    /\ RunAtRest
    /\ DriftAtRest
    /\ BatchAtRest
    /\ LoopAtRest
    /\ OutputFormat \in FormatStrings
    /\ reportFormat = <<>>
    /\ reportErr = "none"

\* generateInstanceReport: format := s.getOutputFormat(), then
\* s.reportPrinter.PrintReport(instanceID, drifts, format)
GenerateInstanceReport ==
    /\ reportErr = "none"
    /\ \E written \in BOOLEAN :
         /\ reportFormat' = getOutputFormat(OutputFormat)
         /\ reportErr' = PrintReport(getOutputFormat(OutputFormat), written)
    /\ UNCHANGED <<runVars, driftVars, batchVars, loopVars, OutputFormat>>

FormatNext == GenerateInstanceReport

FormatSpec == FormatInit /\ [][FormatNext]_vars

\* ------------------------- the scheduling loop and its closures, by scope
\* Run is about to enter `for _, instanceID := range s.config.InstanceIDs`
LoopInit ==
    /\ RunAtRest
    /\ DriftAtRest
    /\ BatchAtRest
    /\ FormatAtRest
    /\ loopScope \in LoopScopes
    /\ loopIDs \in InstanceIDLists
    /\ loopLimit \in 0..MaxLimit
    /\ loopPc = "range"
    /\ loopIndex = 1
    /\ instanceID = ""
    /\ goPc = [i \in 1..Len(loopIDs) |-> "idle"]
    /\ readID = [i \in 1..Len(loopIDs) |-> ""]

\* the head of the loop: the next element is assigned to instanceID, or
\* the loop ends
LoopRange ==
    /\ loopPc = "range"
    /\ IF loopIndex <= Len(loopIDs)
       THEN /\ instanceID' = loopIDs[loopIndex]
            /\ loopPc' = "go"
       ELSE /\ loopPc' = "done"
            /\ UNCHANGED instanceID
    /\ UNCHANGED <<runVars, driftVars, batchVars, formatVars, loopScope, loopIDs,
                   loopLimit, loopIndex, goPc, readID>>

\* g.Go(func() error {...}): blocks while the semaphore is full, then
\* starts the goroutine of this iteration
LoopGo ==
    /\ loopPc = "go"
    /\ LimitAllows(loopLimit, Cardinality(LoopActive(goPc)))
    /\ goPc' = [goPc EXCEPT ![loopIndex] = "start"]
    /\ loopIndex' = loopIndex + 1
    /\ loopPc' = "range"
    /\ UNCHANGED <<runVars, driftVars, batchVars, formatVars, loopScope, loopIDs,
                   loopLimit, instanceID, readID>>

\* the goroutine evaluates the arguments of
\* s.processInstance(gctx, instanceID, tfConfig)
ClosureStart(i) ==
    /\ goPc[i] = "start"
    /\ readID' = [readID EXCEPT ![i] = ClosureReads(loopScope, loopIDs, i, instanceID)]
    /\ goPc' = [goPc EXCEPT ![i] = "process"]
    /\ UNCHANGED <<runVars, driftVars, batchVars, formatVars, loopScope, loopIDs,
                   loopLimit, loopPc, loopIndex, instanceID>>

\* the goroutine returns; errgroup's done() frees its token
ClosureReturn(i) ==
    /\ goPc[i] = "process"
    /\ goPc' = [goPc EXCEPT ![i] = "done"]
    /\ UNCHANGED <<runVars, driftVars, batchVars, formatVars, loopScope, loopIDs,
                   loopLimit, loopPc, loopIndex, instanceID, readID>>

LoopNext ==
    \/ LoopRange
    \/ LoopGo
    \/ \E i \in DOMAIN goPc : ClosureStart(i) \/ ClosureReturn(i)

LoopSpec == LoopInit /\ [][LoopNext]_vars

\* ---------------------------------------------------------------- claims
Parsed == tfConfig = "parsed"
ResultIDs(rs) == {rs[k].InstanceID : k \in 1..Len(rs)}
CountIn(rs, id) == Cardinality({k \in 1..Len(rs) : rs[k].InstanceID = id})
CountRequested(id) == Cardinality({k \in Workers : InstanceIDs[k] = id})
SomeError(rs) == \E k \in 1..Len(rs) : rs[k].Error # "nil"
SomeCleanDrift(rs) == \E k \in 1..Len(rs) : rs[k].HasDrift /\ rs[k].Error = "nil"
SentWorkers == {i \in Workers : wsent[i]}

C3_AnyDriftIffCleanDrift ==
    ret.returned => (ret.anyDrift <=> SomeCleanDrift(results))

\* C4 (as claimed): Run's anyError is true iff some collected result carries
\* an error.
C4_AnyErrorIffResultError ==
    ret.returned => (ret.anyError <=> SomeError(results))

\* C4 (amended): Run's anyError is true iff Run returns an error (validation,
\* parsing, work group) or some collected result carries an error.
C4_AnyErrorIffAnyFailure ==
    ret.returned => (ret.anyError <=> (ret.err # "nil" \/ SomeError(results)))

C4_Witness ==
    /\ ret.returned /\ ret.err = "nil" /\ ret.anyError
    /\ \E k, l \in 1..Len(results) :
          results[k].Error # "nil" /\ results[l].Error = "nil"

\* C5 (as claimed): a worker that had finished processing its instance when
\* the context was cancelled still contributes its outcome, that is, it
\* leaves its select through the send arm.
C5_CompletedStillContributes ==
    [][\A i \in doneAtCancel : wpc'[i] = "done" => wsent'[i]]_vars

\* C5 (amended): once the context is cancelled, every worker that had already
\* delivered its result to the channel still contributes: its result is
\* buffered or collected, and it is among the collected results when Run
\* returns; the results hold nothing else.
C5_DeliveredStillContributes ==
    (ctxCancelled /\ Parsed) =>
        /\ \A i \in SentWorkers :
              CountIn(resultChan, InstanceIDs[i]) + CountIn(results, InstanceIDs[i]) = 1
        /\ ret.returned =>
              /\ Len(results) = Cardinality(SentWorkers)
              /\ ResultIDs(results) = {InstanceIDs[i] : i \in SentWorkers}

C5_Witness ==
    /\ ret.returned /\ ctxCancelled /\ Parsed
    /\ \E i, j \in Workers :
          /\ wsent[i]
          /\ wpc[j] = "done" /\ ~wsent[j]
    /\ Len(results) = Cardinality(SentWorkers)

\* C6: once the caller's context is cancelled, Run returns; if the work
\* group was started every worker has returned and the result channel is
\* closed by then, whether the work group recorded an error or not.
C6_CancelNeverBlocks ==
    ctxCancelled ~>
        (/\ ret.returned
         /\ Parsed => (Active = {} /\ chanClosed /\ closerPc = "done"))

C6_Witness ==
    /\ ctxCancelled /\ ret.returned /\ Parsed
    /\ gerr # "nil"
    /\ chanClosed
    /\ N >= 2

\* C7: when the work group reports an error, Run returns it only after the
\* channel was closed and drained: the results are exactly what the workers
\* delivered, anyError is true and anyDrift is computed from these results.
C7_GroupErrorAfterDrain ==
    (ret.returned /\ gerr # "nil") =>
        /\ ret.err = "group"
        /\ ret.anyError
        /\ chanClosed /\ resultChan = <<>>
        /\ Len(results) = Cardinality(SentWorkers)
        /\ ResultIDs(results) = {InstanceIDs[i] : i \in SentWorkers}
        /\ SomeCleanDrift(results) => ret.anyDrift
        /\ ret.anyDrift => \E k \in 1..Len(results) : results[k].HasDrift

C7_Witness ==
    /\ ret.returned /\ ret.err = "group"
    /\ Len(results) >= 1
    /\ ~SomeError(results)
    /\ ret.anyDrift

\* C8: with ConcurrencyLimit k > 0 at most k workers are inside
\* processInstance at any moment; with ConcurrencyLimit 0 the scheduling
\* loop never waits, so all workers may run at once.
C8_ConcurrencyBound ==
    /\ ConcurrencyLimit > 0 => Cardinality(InProcess) <= ConcurrencyLimit
    /\ (ConcurrencyLimit = 0 /\ runPc = "schedule" /\ next <= N) => ENABLED Schedule

C8_Witness ==
    /\ ConcurrencyLimit = 1
    /\ N >= 2
    /\ runPc = "schedule" /\ next <= N
    /\ Cardinality(InProcess) = 1

\* C9: with a context that is never cancelled, Run terminates for every
\* number of instances and every limit, and it returns one result per
\* requested instance.
C9_BoundedRunTerminates ==
    <>(\/ ctxCancelled
       \/ /\ ret.returned
          /\ Parsed => (Len(results) = N /\ ret.err = "nil"))

C9_Witness ==
    /\ ret.returned /\ Parsed /\ ~ctxCancelled
    /\ ConcurrencyLimit >= 1 /\ ConcurrencyLimit < N
    /\ Len(results) = N

\* C10: a run that fails validation never calls the parser, the AWS provider
\* or the printer; a run whose parsing fails calls the parser once, starts no
\* worker, fetches nothing and prints nothing; both end with an error.
NothingStarted ==
    /\ \A i \in Workers : wpc[i] = "idle"
    /\ closerPc = "none"
    /\ \A id \in InstanceIDSet :
          fetchCalls[id] = 0 /\ detectCalls[id] = 0 /\ printCalls[id] = 0
    /\ results = <<>> /\ resultChan = <<>>
    /\ errorLogs = <<>> /\ summary = <<>>

C10_EarlyFailureStopsRun ==
    /\ (Len(InstanceIDs) = 0 \/ ConfigPath = "") =>
          /\ parseCalls = 0
          /\ NothingStarted
          /\ ret.returned => ret.err = "validation"
    /\ ~Parsed => NothingStarted
    /\ (ret.returned /\ ~Parsed) =>
          /\ ret.err \in {"validation", "parse"}
          /\ ret.err = "parse" => parseCalls = 1

C10_Witness ==
    /\ ret.returned /\ ret.err = "parse"
    /\ N >= 2
    /\ parseCalls = 1

\* every per-instance result that exists at this moment: the ones workers
\* hold at their select, the buffered ones and the collected ones
HeldResults == {wres[i] : i \in {j \in Workers : wpc[j] = "select"}}
VisibleResults ==
    HeldResults \cup {resultChan[k] : k \in 1..Len(resultChan)}
                \cup {results[k] : k \in 1..Len(results)}
PassedValidation == Len(InstanceIDs) > 0 /\ ConfigPath # ""

\* C11: a run that passes validation parses the declared configuration
\* exactly once, whatever the number of instances; no live fetch and no
\* worker starts before that parse succeeded; every drift result references
\* the one snapshot that parse returned.
C11_ParsedOnceSharedSnapshot ==
    /\ parseCalls <= 1
    /\ (PassedValidation /\ runPc \notin {"validate", "parse"}) => parseCalls = 1
    /\ \A id \in InstanceIDSet : fetchCalls[id] > 0 => (parseCalls = 1 /\ Parsed)
    /\ Active # {} => Parsed
    /\ \A r \in VisibleResults :
          ~r.Result.IsNil => (r.Result.TfConfig = tfConfig /\ Parsed)

C11_Witness ==
    /\ ret.returned /\ N >= 2 /\ parseCalls = 1
    /\ Len(results) = N
    /\ \A k \in 1..Len(results) :
          ~results[k].Result.IsNil /\ results[k].Result.TfConfig = tfConfig

C13_FetchFailureResult ==
    /\ \A i \in Workers : wpc[i] = "select" => wres[i].InstanceID = InstanceIDs[i]
    /\ \A r \in VisibleResults :
          /\ r.InstanceID \in {InstanceIDs[i] : i \in Workers}
          /\ r.Error = "fetch" =>
                /\ ~r.HasDrift
                /\ r.Result.IsNil
                /\ fetchCalls[r.InstanceID] = 1
                /\ detectCalls[r.InstanceID] = 0
                /\ printCalls[r.InstanceID] = 0

C13_Witness ==
    /\ ret.returned /\ N >= 2 /\ Len(results) = N
    /\ \E k, l \in 1..Len(results) :
          /\ results[k].Error = "fetch" /\ detectCalls[results[k].InstanceID] = 0
          /\ results[l].Error = "nil" /\ detectCalls[results[l].InstanceID] = 1

DriftCount(rs) == Cardinality({k \in 1..Len(rs) : rs[k].HasDrift})
ErrorCount(rs) == Cardinality({k \in 1..Len(rs) : rs[k].Error # "nil"})

\* C14 (as claimed): once the collecting loop has ended and Run returned,
\* exactly one summary line was emitted iff more than one instance was
\* requested.
C14_SummaryIffSeveralRequested ==
    (ret.returned /\ Parsed) => (Len(summary) = 1 <=> N > 1)

\* C14 (amended): no summary line is emitted before the collecting loop has
\* ended; when Run returns a nil error every requested instance has a result
\* and exactly one summary line was emitted iff more than one instance was
\* requested, its numbers being the number of results, the number of results
\* with HasDrift and the number of results with an error; when Run returns
\* an error (validation, parsing, work group) no summary line is emitted.
C14_SummaryAfterCleanRun ==
    /\ ~ret.returned => summary = <<>>
    /\ (ret.returned /\ ret.err # "nil") => summary = <<>>
    /\ (ret.returned /\ ret.err = "nil") =>
          /\ Len(results) = N
          /\ N <= 1 => summary = <<>>
          /\ N > 1 =>
                summary = <<[checked |-> N,
                             drift |-> DriftCount(results),
                             errors |-> ErrorCount(results)]>>

C14_Witness ==
    /\ ret.returned /\ ret.err = "nil" /\ N >= 2
    /\ Len(summary) = 1
    /\ summary[1].checked = 2
    /\ summary[1].drift = 1
    /\ summary[1].errors = 1
    /\ \E k \in 1..Len(results) : results[k].HasDrift /\ results[k].Error # "nil"

\* C15: the exit status is determined by what Run returned: 1 whenever Run
\* returned an error, 2 whenever it reported drift without an error, 1 when
\* it reported per-instance errors and no drift, and 0 only when it reported
\* neither; a process that exits with 0 saw a result without drift and
\* without error for every requested instance.
C15_ExitStatus ==
    /\ exitCode # NotExited => ret.returned
    /\ exitCode \in {NotExited, 0, 1, 2}
    /\ exitCode # NotExited =>
          /\ ret.err # "nil" => exitCode = 1
          /\ (ret.err = "nil" /\ ret.anyDrift) => exitCode = 2
          /\ (ret.err = "nil" /\ ~ret.anyDrift /\ ret.anyError) => exitCode = 1
          /\ exitCode = 0 =>
                /\ ~ret.anyDrift /\ ~ret.anyError /\ ret.err = "nil"
                /\ Len(results) = N
                /\ \A k \in 1..Len(results) :
                      ~results[k].HasDrift /\ results[k].Error = "nil"

C15_Witness ==
    /\ exitCode = 2
    /\ ret.anyDrift /\ ret.anyError /\ ret.err = "nil"
    /\ N >= 2

\* ---- the drift engine (DriftSpec, GroupSpec) ----

\* the call of DetectDrift has ended, and it was given two snapshots
CallEnded == dcall.kind \in {"returned", "panicked"}
GivenSnapshots == ~awsInstance.IsNil /\ ~tfInstance.IsNil

\* the positions of the filter whose canonical name has no comparator
Unsupported(attrs) ==
    {k \in DOMAIN attrs : normalizeAttributeName(attrs[k]) \notin ComparatorNames}

\* C16: when a non-empty filter holds a name whose canonical form has no
\* registered comparator (and no comparator faults), DetectDrift returns an
\* unsupported-attribute (resource_missing) error that names that attribute,
\* wherever the name stands in the filter: the name is never skipped.
C16_UnsupportedAttributeFails ==
    (CallEnded /\ GivenSnapshots /\ faulty = {}
        /\ Unsupported(attributesToCheck) # {}) =>
       /\ dcall.kind = "returned"
       /\ dcall.err.Category = ErrResourceMissing
       /\ \E k \in Unsupported(attributesToCheck) :
             dcall.err.Attribute = attributesToCheck[k]

\* a comparator that faults is reached: every requested name has a
\* comparator and one of them faults, or the filter is empty
FaultReached ==
    /\ GivenSnapshots
    /\ faulty # {}
    /\ Unsupported(attributesToCheck) = {}
    /\ \/ attributesToCheck = <<>>
       \/ \E k \in DOMAIN attributesToCheck :
             normalizeAttributeName(attributesToCheck[k]) \in faulty

\* C17: when a comparator faults during DetectDrift, the call returns a
\* comparison_failed error that carries the attribute name; the fault does
\* not leave DetectDrift as a panic.
C17_ComparatorFaultReturned ==
    (CallEnded /\ FaultReached) =>
       /\ dcall.kind = "returned"
       /\ dcall.err.Category = ErrComparisonFailed
       /\ dcall.err.Attribute \in faulty

\* two lists of security-group identifiers are reorderings of each other
IsPermutation(a, b) ==
    /\ Len(a) = Len(b)
    /\ \E p \in [1..Len(a) -> 1..Len(a)] :
          /\ \A k, l \in 1..Len(a) : k # l => p[k] # p[l]
          /\ \A k \in 1..Len(a) : a[k] = b[p[k]]

\* the value an attribute has in a snapshot
ValueOf(attr, inst) ==
    CASE attr = AttrInstanceType -> inst.InstanceType
      [] attr = AttrAMI -> inst.AMI
      [] attr = AttrSubnetID -> inst.SubnetID
      [] attr = AttrTags -> inst.Tags
      [] attr = AttrSecurityGroups -> inst.SecurityGroups

\* the two snapshots differ in an attribute; security-group lists differ
\* when one is not a reordering of the other
Differs(attr, aws, tf) ==
    IF attr = AttrSecurityGroups
    THEN \/ aws.SecurityGroups.IsNil # tf.SecurityGroups.IsNil
         \/ ~IsPermutation(aws.SecurityGroups.Items, tf.SecurityGroups.Items)
    ELSE ValueOf(attr, aws) # ValueOf(attr, tf)

DefaultAttributes ==
    {AttrInstanceType, AttrAMI, AttrSubnetID, AttrTags, AttrSecurityGroups}

\* C18: with an empty filter and two non-nil snapshots (and no faulting
\* comparator) DetectDrift returns a drift map whose keys are exactly the
\* attributes among instance_type, ami, subnet_id, tags and security_groups
\* whose values differ, each entry holding its canonical name, the live and
\* the declared value, and HasDrift is true exactly when the map is not
\* empty.
C18_DefaultFilterDriftMap ==
    (CallEnded /\ GivenSnapshots /\ attributesToCheck = <<>> /\ faulty = {}) =>
       /\ dcall.kind = "returned"
       /\ dcall.err = NoError
       /\ ~dcall.result.IsNil
       /\ DOMAIN dcall.result.Drifts =
             {attr \in DefaultAttributes : Differs(attr, awsInstance, tfInstance)}
       /\ \A attr \in DOMAIN dcall.result.Drifts :
             dcall.result.Drifts[attr] =
                DriftDetail(attr, ValueOf(attr, awsInstance), ValueOf(attr, tfInstance))
       /\ dcall.result.HasDrift <=> (DOMAIN dcall.result.Drifts # {})

C18_Witness ==
    /\ dcall.kind = "returned"
    /\ attributesToCheck = <<>>
    /\ GivenSnapshots
    /\ awsInstance.InstanceType = "t2.micro"
    /\ tfInstance.InstanceType = "t2.small"
    /\ DOMAIN dcall.result.Drifts = {AttrInstanceType}
    /\ dcall.result.Drifts[AttrInstanceType].AWSValue = "t2.micro"
    /\ dcall.result.Drifts[AttrInstanceType].TerraformValue = "t2.small"

\* the entry of security_groups in the drift map is absent
NoGroupDrift(result) == AttrSecurityGroups \notin DOMAIN result.Drifts

\* C19: DetectDrift returns (GroupSpec: snapshots that differ at most in
\* their security-group lists).  If the declared list is a reordering of
\* the live list, no security_groups drift is reported; and when
\* security_groups drift is reported, the recorded live and declared values
\* are the lists the snapshots held before the call, in their order.
C19_Returning ==
    (dcall.kind # "returned" /\ dcall'.kind = "returned") =>
       /\ (/\ ~awsInstance.SecurityGroups.IsNil
           /\ ~tfInstance.SecurityGroups.IsNil
           /\ IsPermutation(awsInstance.SecurityGroups.Items,
                            tfInstance.SecurityGroups.Items))
             => NoGroupDrift(dcall'.result)
       /\ ~NoGroupDrift(dcall'.result) =>
             /\ dcall'.result.Drifts[AttrSecurityGroups].AWSValue
                   = awsInstance.SecurityGroups
             /\ dcall'.result.Drifts[AttrSecurityGroups].TerraformValue
                   = tfInstance.SecurityGroups
C19_GroupOrderInvariant == [][C19_Returning]_vars

C19_Witness ==
    /\ dcall.kind = "returned"
    /\ awsInstance.SecurityGroups = List(<<"sg-2", "sg-1">>)
    /\ tfInstance.SecurityGroups = List(<<"sg-1", "sg-2">>)
    /\ NoGroupDrift(dcall.result)
    /\ ~dcall.result.HasDrift

\* the set of identifiers of a list
GroupSet(list) == {list.Items[k] : k \in 1..Len(list.Items)}

\* C20: the security_groups comparison is a set comparison: drift is
\* reported exactly when the set of identifiers of the live list differs
\* from the set of the declared list (a missing list against a present one
\* counting as a difference), and two missing lists are no drift.
C20_GroupSetComparison ==
    (dcall.kind = "returned" /\ GivenSnapshots) =>
       (~NoGroupDrift(dcall.result)
          <=> \/ awsInstance.SecurityGroups.IsNil # tfInstance.SecurityGroups.IsNil
              \/ GroupSet(awsInstance.SecurityGroups)
                    # GroupSet(tfInstance.SecurityGroups))

\* C21: with an empty filter instance_id is never compared: whatever the
\* two InstanceID values are, the drift map (also while it is being built)
\* has no instance_id entry, and snapshots that differ in nothing but
\* InstanceID give HasDrift = false and an empty map.
C21_InstanceIDNeverCompared ==
    (dcall.kind \in {"ranging", "returned"} /\ GivenSnapshots
        /\ attributesToCheck = <<>>) =>
       /\ AttrInstanceID \notin DOMAIN dcall.result.Drifts
       /\ (\A attr \in DefaultAttributes : ~Differs(attr, awsInstance, tfInstance))
             => (~dcall.result.HasDrift /\ DOMAIN dcall.result.Drifts = {})

C21_Witness ==
    /\ dcall.kind = "returned"
    /\ attributesToCheck = <<>>
    /\ GivenSnapshots
    /\ awsInstance.InstanceID = "i-1"
    /\ tfInstance.InstanceID = "i-2"
    /\ \A attr \in DefaultAttributes : ~Differs(attr, awsInstance, tfInstance)
    /\ ~dcall.result.HasDrift
    /\ dcall.err = NoError

\* the canonical name each requested spelling stands for
CanonicalOf(raw) ==
    CASE raw = RawInstanceType -> AttrInstanceType
      [] raw = RawSG -> AttrSecurityGroups
      [] raw = RawAMI -> AttrAMI
      [] raw = RawSubnet -> AttrSubnetID
SupportedRaw == {RawInstanceType, RawSG, RawAMI, RawSubnet}
Requested(attrs) == {CanonicalOf(attrs[k]) : k \in DOMAIN attrs}

\* C22: with a non-empty filter of supported names (an alias, upper case,
\* a hyphen or a space in them) and no faulting comparator, DetectDrift
\* returns a drift map whose keys are exactly the canonical names of the
\* requested attributes that differ, with the live and the declared value;
\* an attribute that was not requested is not reported even if it differs.
C22_OnlyRequestedAttributes ==
    (CallEnded /\ GivenSnapshots /\ faulty = {} /\ attributesToCheck # <<>>
        /\ \A k \in DOMAIN attributesToCheck : attributesToCheck[k] \in SupportedRaw) =>
       /\ dcall.kind = "returned"
       /\ dcall.err = NoError
       /\ DOMAIN dcall.result.Drifts =
             {attr \in Requested(attributesToCheck) :
                 Differs(attr, awsInstance, tfInstance)}
       /\ \A attr \in DOMAIN dcall.result.Drifts :
             dcall.result.Drifts[attr] =
                DriftDetail(attr, ValueOf(attr, awsInstance), ValueOf(attr, tfInstance))
       /\ dcall.result.HasDrift <=> (DOMAIN dcall.result.Drifts # {})

C22_Witness ==
    /\ dcall.kind = "returned"
    /\ attributesToCheck = <<RawSG, RawInstanceType>>
    /\ GivenSnapshots
    /\ Differs(AttrInstanceType, awsInstance, tfInstance)
    /\ Differs(AttrAMI, awsInstance, tfInstance)
    /\ Differs(AttrTags, awsInstance, tfInstance)
    /\ ~Differs(AttrSecurityGroups, awsInstance, tfInstance)
    /\ DOMAIN dcall.result.Drifts = {AttrInstanceType}

\* C23: no step of a call of DetectDrift, with any filter and whether the
\* call returns a result, returns an error or panics, changes the live or
\* the declared snapshot: their fields, the order of their security-group
\* lists and their tag maps stay what they were before the call.
C23_InputsUnchanged ==
    [][awsInstance' = awsInstance /\ tfInstance' = tfInstance]_vars

C23_Witness ==
    /\ dcall.kind = "returned"
    /\ attributesToCheck = <<RawSG>>
    /\ awsInstance.SecurityGroups = List(<<"sg-1", "sg-2">>)
    /\ tfInstance.SecurityGroups = List(<<"sg-2", "sg-1">>)
    /\ ~dcall.result.HasDrift

\* ---- the batched live fetch (BatchSpec) ----

\* the DescribeInstances calls that failed, and the identifiers given to them
FailedCalls == {k \in DOMAIN describeCalls : ~describeCalls[k].ok}
FailedIDs ==
    UNION {{describeCalls[c].ids[j] : j \in DOMAIN describeCalls[c].ids} :
              c \in FailedCalls}
ReturnedIDs == {batchRet.instances[k] : k \in DOMAIN batchRet.instances}

\* C24: when the DescribeInstances call of one batch fails inside
\* GetInstancesDetails, the failure affects the identifiers of that batch
\* only: the snapshots of the identifiers of the other batches are returned.
C24_FailureAttributedToBatch ==
    (batchRet.returned /\ FailedCalls # {}) =>
       \A k \in DOMAIN instanceIDs :
          instanceIDs[k] \notin FailedIDs => instanceIDs[k] \in ReturnedIDs

\* the concatenation of the batches of the calls issued
RECURSIVE ConcatCalls(_)
ConcatCalls(calls) ==
    IF calls = <<>> THEN <<>> ELSE Head(calls).ids \o ConcatCalls(Tail(calls))

\* ceil(n / maxIDsPerRequest)
CeilBatches(n) == (n + maxIDsPerRequest - 1) \div maxIDsPerRequest

\* C29: when GetInstancesDetails has returned, an empty list was rejected
\* with an invalid-input error without any DescribeInstances call, and for a
\* list of n >= 1 identifiers ceil(n/10) calls were issued, each with at
\* most 10 identifiers, their batches being consecutive pieces of the input
\* in input order whose concatenation is the input list.
C29_ConsecutiveBatches ==
    batchRet.returned =>
       IF instanceIDs = <<>>
       THEN /\ batchRet.err = ErrBatchInvalidInput
            /\ batchRet.IsNil
            /\ describeCalls = <<>>
       ELSE /\ Len(describeCalls) = CeilBatches(Len(instanceIDs))
            /\ \A k \in DOMAIN describeCalls :
                  Len(describeCalls[k].ids) \in 1..maxIDsPerRequest
            /\ ConcatCalls(describeCalls) = instanceIDs

\* ---- the report format (FormatSpec) ----

\* the configured string spells "json" in some letter case
SpellsJSON(str) ==
    /\ Len(str) = 4
    /\ str[1] \in {"j", "J"}
    /\ str[2] \in {"s", "S"}
    /\ str[3] \in {"o", "O"}
    /\ str[4] \in {"n", "N"}

\* C30: the format handed to PrintReport is JSON or TABLE: JSON exactly when
\* the configured string is "json" in any letter case, TABLE for every other
\* string (the empty one and unrecognised names included); so PrintReport
\* never returns its unsupported-format error.
C30_FormatIsJSONOrTABLE ==
    reportErr # "none" =>
       /\ reportFormat \in {OutputFormatTypeJSON, OutputFormatTypeTABLE}
       /\ reportFormat = OutputFormatTypeJSON <=> SpellsJSON(OutputFormat)
       /\ reportErr # "unsupported"

C30_Witness ==
    /\ reportErr = "nil"
    /\ OutputFormat = <<"J", "s", "o", "N">>
    /\ reportFormat = OutputFormatTypeJSON

\* C25: the result channel has room for one result of every requested
\* instance and a worker sends at most one, so the buffer never holds more
\* than its capacity and a worker that reaches its send always finds a free
\* slot, whether or not the collecting loop has started.
C25_SendNeverBlocks ==
    /\ ChanCap(InstanceIDs) = N
    /\ Len(resultChan) <= ChanCap(InstanceIDs)
    /\ Len(resultChan) + Len(results) = Cardinality({i \in Workers : wsent[i]})
    /\ \A i \in Workers :
          wpc[i] = "select" => Len(resultChan) < ChanCap(InstanceIDs)

\* the buffer holds a result while the scheduling loop is still running and
\* the last worker stands at its send
C25_Witness ==
    /\ N = 2
    /\ runPc = "schedule"
    /\ Len(resultChan) = 1
    /\ wsent[1]
    /\ wpc[2] = "select"

\* C28 (as claimed): no result, in a worker's hands, in the channel or
\* collected, has both an error and HasDrift; and in a summary line the
\* drift count plus the error count is at most the number checked.
C28_ErrorExcludesDrift ==
    /\ \A i \in Workers : ~(wres[i].Error # "nil" /\ wres[i].HasDrift)
    /\ \A k \in 1..Len(resultChan) :
          ~(resultChan[k].Error # "nil" /\ resultChan[k].HasDrift)
    /\ \A k \in 1..Len(results) :
          ~(results[k].Error # "nil" /\ results[k].HasDrift)
    /\ \A k \in 1..Len(summary) :
          summary[k].drift + summary[k].errors <= summary[k].checked

\* ---- the scheduling loop (LoopSpec) ----

\* C27: the result channel is closed once, by the closer goroutine, and
\* only when the scheduling loop is over and every scheduled worker has
\* returned; it stays closed, no worker is at its send on a closed channel,
\* and the collecting loop is left only when no worker is still running.
C27_ClosedOnceAfterWorkers ==
    [][/\ chanClosed => chanClosed'
       /\ chanClosed' # chanClosed => closerPc = "wait" /\ closerPc' = "done"
       /\ closerPc = "done" => closerPc' = "done"
       /\ chanClosed' => next' > N /\ Active' = {}
       /\ runPc' \in {"wait", "done"} => Active' = {}]_vars

\* the channel is closed after both workers delivered, before the
\* collecting loop has taken the results
C27_Witness ==
    /\ N = 2
    /\ chanClosed
    /\ Len(resultChan) = 2
    /\ runPc = "collect"

\* C26: the goroutine of every iteration hands processInstance the
\* identifier of the iteration that created it, however its start
\* interleaves with the later iterations of the loop; so once all have
\* started, the identifiers processed are the requested ones, each as often
\* as it was requested.
C26_WorkerProcessesOwnID ==
    \A i \in DOMAIN goPc :
       goPc[i] \in {"process", "done"} => readID[i] = loopIDs[i]


====
